---- MODULE Spec2Model ----
(***************************************************************************)
(* Model of autoinventary.py: the bulk import of licence rows from         *)
(* cargaLicencias.xlsx into the Inventories table.  The script is linear:  *)
(* validate the environment, build the engine, read the spreadsheet, read  *)
(* the existing activation keys, classify every row, print the summary,    *)
(* write the two side files, ask for confirmation, insert and commit.      *)
(* Everything from the read of the existing keys on runs inside one try    *)
(* block, whose handler rolls back and logs.                               *)
(*                                                                         *)
(* Text is a sequence of one-character strings, so that str.strip and      *)
(* str.lower are computed.  A spreadsheet cell is a record [tipo, val]:    *)
(* tipo is the Python type of the cell and val is what str(cell) yields.   *)
(***************************************************************************)
EXTENDS Integers, Sequences, FiniteSets, TLC

VARIABLES pc, exit_status, log, error, df, store, tx, existing_keys,
          nuevos_items, duplicados_db, duplicados_archivo,
          activation_keys_nuevos, index, totales, archivos, entrada,
          confirmacion

vars == <<pc, exit_status, log, error, df, store, tx, existing_keys,
          nuevos_items, duplicados_db, duplicados_archivo,
          activation_keys_nuevos, index, totales, archivos, entrada,
          confirmacion>>

(* ------------------------------ bounds --------------------------------- *)

\* Largest number of rows of the spreadsheet.
MaxRows == 3

\* Largest number of rows of the Inventories table before the run.
MaxStore == 1

(* ------------------------------ values --------------------------------- *)

\* An empty spreadsheet cell: pandas reads it as the float NaN.
NaN == [tipo |-> "float", val |-> <<"n", "a", "n">>]

\* A text cell.
Texto(s) == [tipo |-> "str", val |-> s]

\* A numeric cell, with the digits str() prints for it.
Entero(s) == [tipo |-> "int", val |-> s]

\* pd.isna(cell): true of NaN (and None), false of text and of numbers.
IsNa(cell) == cell.tipo = "float"

\* str(cell): text is unchanged, a number is printed.
Str(cell) == cell.val

\* A value has the method strip only if it is a str.
HasStrip(cell) == cell.tipo = "str"

\* The whitespace str.strip removes (the alphabet of the model has one).
IsSpace(c) == c = " "

RECURSIVE LStrip(_)
\* str.lstrip(): drop the leading whitespace.
LStrip(s) == IF s # <<>> /\ IsSpace(Head(s)) THEN LStrip(Tail(s)) ELSE s

RECURSIVE RStrip(_)
\* str.rstrip(): drop the trailing whitespace.
RStrip(s) ==
  IF s # <<>> /\ IsSpace(s[Len(s)]) THEN RStrip(SubSeq(s, 1, Len(s) - 1)) ELSE s

\* str.strip(): drop the whitespace at both ends.
Strip(s) == RStrip(LStrip(s))

\* str.lower() of one character of the model's alphabet.
LowerChar(c) == IF c = "Y" THEN "y" ELSE IF c = "N" THEN "n" ELSE c

\* str.lower().
Lower(s) == [i \in 1..Len(s) |-> LowerChar(s[i])]

\* The marker the loop records for a row without activation code.
NA_VACIO == <<"N", "/", "A", " ", "(", "V", "a", "l", "o", "r", " ",
              "V", "a", "c", "í", "o", ")">>

\* An unassigned Python name.
Unset == <<"<unset>">>

\* No exception.
NoError == "None"

\* The process has not ended yet.
Running == "running"

(* ------------------------------ inputs --------------------------------- *)

\* One row of the DataFrame: the three columns the loop reads with methods.
\* INSTRUCCIONES, MONTO and CORREO DEL VENDEDOR are copied without any
\* operation on them and are left out.
Fila(k, n, r) == [ACTIVATION_CODE |-> k, NOMBRE |-> n, REFERENCE |-> r]

\* The activation-code cells: missing, text, text with surrounding blanks,
\* and text of blanks only.
Codes == { NaN, Texto(<<"A">>), Texto(<<" ", "A">>), Texto(<<"B">>),
           Texto(<<" ">>) }

\* The rows of the spreadsheet: every code with text in the other columns,
\* and rows whose NOMBRE or REFERENCE cell is empty or a number.
Filas ==
  { Fila(k, Texto(<<"n", " ">>), Texto(<<"r">>)) : k \in Codes } \cup
  { Fila(Texto(<<"A">>), NaN, Texto(<<"r">>)),
    Fila(Texto(<<"B">>), Texto(<<"m">>), Entero(<<"7">>)),
    Fila(NaN, NaN, Texto(<<"r">>)) }

\* The DataFrames read_excel can return.
DataFrames == UNION { [1..n -> Filas] : n \in 0..MaxRows }

\* The activation keys of the table before the run.
StoreKeys == { <<"A">>, <<"B">> }

\* The table before the run: activationKey is unique in it.
Stores ==
  { s \in UNION { [1..n -> StoreKeys] : n \in 0..MaxStore } :
      \A i, j \in 1..Len(s) : i # j => s[i] # s[j] }

\* What the operator types at the prompt.
Answers == { <<"y">>, <<"Y">>, <<" ", "y">>, <<"n">>, <<"N", " ">>,
             <<"x">>, <<"y", "e", "s">>, <<>> }

(* ------------------------------ helpers -------------------------------- *)

\* logger.<level>(message): append to carga_licencias.log.  detail is the
\* value the message interpolates (a row number or a code), as a sequence.
Logged(level, msg, detail) == Append(log, <<level, msg, detail>>)

\* The elements of a sequence.
Range(s) == { s[i] : i \in 1..Len(s) }

\* A side file: absent, or present with its content as the set of the
\* pieces of text between newlines: the newline-terminated lines and, when
\* a write was cut, the non-empty unterminated piece at the end.
Ausente == [existe |-> FALSE, lineas |-> {}]

\* The summary counters before they are assigned.
SinTotales == [total_nuevos |-> 0, total_duplicados_db |-> 0,
               total_duplicados_archivo |-> 0]

\* len(df).
total_filas == Len(df)

(* ------------------------------ start ---------------------------------- *)

Init ==
  /\ pc = "env"
  /\ exit_status = Running
  /\ log = <<>>
  /\ error = NoError
  /\ df = <<>>
  /\ store \in Stores
  /\ tx = <<>>
  /\ existing_keys = {}
  /\ nuevos_items = <<>>
  /\ duplicados_db = {}
  /\ duplicados_archivo = {}
  /\ activation_keys_nuevos = {}
  /\ index = 0
  /\ totales = SinTotales
  /\ archivos = [duplicados_db_txt |-> Ausente, duplicados_archivo_txt |-> Ausente]
  /\ entrada = Unset
  /\ confirmacion = Unset

(* ------------------------------ setup ---------------------------------- *)

\* Lines 27-36: all five settings must be present, else log and sys.exit(msg).
ValidarEntorno ==
  /\ pc = "env"
  /\ \E completo \in BOOLEAN :
       IF completo
         THEN /\ pc' = "engine"
              /\ UNCHANGED <<log, error, exit_status>>
         ELSE /\ log' = Logged("ERROR", "faltan_variables", <<>>)
              /\ error' = "SystemExit"
              /\ exit_status' = "1"
              /\ pc' = "exited"
  /\ UNCHANGED <<df, store, tx, existing_keys, nuevos_items,
                 duplicados_db, duplicados_archivo, activation_keys_nuevos,
                 index, totales, archivos, entrada, confirmacion>>

\* Lines 40-48: create_engine and sessionmaker; an exception is logged and
\* raised again, which ends the script with status 1.
CrearEngine ==
  /\ pc = "engine"
  /\ \E ok \in BOOLEAN :
       IF ok
         THEN /\ log' = Logged("INFO", "conexion_establecida", <<>>)
              /\ pc' = "tablas"
              /\ UNCHANGED <<error, exit_status>>
         ELSE /\ log' = Logged("ERROR", "error_conectar", <<>>)
              /\ error' = "EngineError"
              /\ exit_status' = "1"
              /\ pc' = "exited"
  /\ UNCHANGED <<df, store, tx, existing_keys, nuevos_items, duplicados_db,
                 duplicados_archivo, activation_keys_nuevos, index, totales,
                 archivos, entrada, confirmacion>>

\* Lines 67-72: create_all is commented out; only the message is logged.
VerificarTablas ==
  /\ pc = "tablas"
  /\ log' = Logged("INFO", "verificacion_tablas", <<>>)
  /\ pc' = "excel"
  /\ UNCHANGED <<exit_status, error, df, store, tx, existing_keys,
                 nuevos_items, duplicados_db, duplicados_archivo,
                 activation_keys_nuevos, index, totales, archivos, entrada,
                 confirmacion>>

\* Lines 75-82: read_excel; an exception is logged and raised again.
LeerExcel ==
  /\ pc = "excel"
  /\ \/ \E d \in DataFrames :
          /\ df' = d
          /\ log' = Logged("INFO", "excel_leido", <<>>)
          /\ pc' = "query"
          /\ UNCHANGED <<error, exit_status>>
     \/ /\ log' = Logged("ERROR", "error_leer_excel", <<>>)
        /\ error' = "ExcelError"
        /\ exit_status' = "1"
        /\ pc' = "exited"
        /\ UNCHANGED df
  /\ UNCHANGED <<store, tx, existing_keys, nuevos_items, duplicados_db,
                 duplicados_archivo, activation_keys_nuevos, index, totales,
                 archivos, entrada, confirmacion>>

\* Lines 85-96: inside the try, read every activationKey of the table; the
\* four collections start empty (as in Init).  An exception of the query
\* goes to the handler of line 198.
ConsultarExistentes ==
  /\ pc = "query"
  /\ \/ /\ existing_keys' = Range(store)
        /\ log' = Logged("INFO", "codigos_existentes", <<>>)
        /\ pc' = "loop"
        /\ UNCHANGED error
     \/ /\ error' = "OperationalError"
        /\ pc' = "except"
        /\ UNCHANGED <<existing_keys, log>>
  /\ UNCHANGED <<exit_status, df, store, tx, nuevos_items, duplicados_db,
                 duplicados_archivo, activation_keys_nuevos, index, totales,
                 archivos, entrada, confirmacion>>

(* ------------------------- reconciliation loop ------------------------- *)

\* The branch a row would take if the loop did not look for the code among
\* the codes accepted earlier in the file.
RamaSinDuplicadoArchivo(cell, existentes, nuevos) ==
  IF IsNa(cell) THEN "vacio"
  ELSE IF Strip(Str(cell)) \in existentes THEN "duplicado_db"
  ELSE "nuevo"

\* Lines 100-120: the branch a row takes.  The empty check is pd.isna on the
\* raw cell; the two membership tests use str(cell).strip().
Rama(cell, existentes, nuevos) ==
  IF IsNa(cell) THEN "vacio"
  ELSE IF Strip(Str(cell)) \in existentes THEN "duplicado_db"
  ELSE IF Strip(Str(cell)) \in nuevos THEN "duplicado_archivo"
  ELSE "nuevo"

\* Lines 123-133: the Inventories object of an accepted row.
Item(row, activation_code) ==
  [name |-> Strip(row.NOMBRE.val),
   activationKey |-> activation_code,
   product_reference |-> Strip(row.REFERENCE.val)]

\* Lines 99-135: one iteration of the loop over df.iterrows().
ProcesarFila ==
  /\ pc = "loop"
  /\ index < Len(df)
  /\ LET row == df[index + 1]
         activation_code == Strip(Str(row.ACTIVATION_CODE))
         rama == Rama(row.ACTIVATION_CODE, existing_keys, activation_keys_nuevos)
     IN
       \/ /\ rama = "vacio"
          /\ log' = Logged("WARNING", "codigo_vacio", <<index + 2>>)
          /\ duplicados_db' = duplicados_db \cup {NA_VACIO}
          /\ index' = index + 1
          /\ UNCHANGED <<pc, error, nuevos_items, duplicados_archivo,
                         activation_keys_nuevos>>
       \/ /\ rama = "duplicado_db"
          /\ log' = Logged("WARNING", "ya_existe_db", activation_code)
          /\ duplicados_db' = duplicados_db \cup {activation_code}
          /\ index' = index + 1
          /\ UNCHANGED <<pc, error, nuevos_items, duplicados_archivo,
                         activation_keys_nuevos>>
       \/ /\ rama = "duplicado_archivo"
          /\ log' = Logged("WARNING", "duplicado_excel", activation_code)
          /\ duplicados_archivo' = duplicados_archivo \cup {activation_code}
          /\ index' = index + 1
          /\ UNCHANGED <<pc, error, nuevos_items, duplicados_db,
                         activation_keys_nuevos>>
       \/ /\ rama = "nuevo"
          /\ HasStrip(row.NOMBRE) /\ HasStrip(row.REFERENCE)
          /\ nuevos_items' = Append(nuevos_items, Item(row, activation_code))
          /\ activation_keys_nuevos' = activation_keys_nuevos \cup {activation_code}
          /\ index' = index + 1
          /\ UNCHANGED <<pc, error, log, duplicados_db, duplicados_archivo>>
       \/ /\ rama = "nuevo"
          /\ ~(HasStrip(row.NOMBRE) /\ HasStrip(row.REFERENCE))
          /\ error' = "AttributeError"
          /\ pc' = "except"
          /\ UNCHANGED <<index, log, nuevos_items, duplicados_db,
                         duplicados_archivo, activation_keys_nuevos>>
  /\ UNCHANGED <<exit_status, df, store, tx, existing_keys, totales, archivos,
                 entrada, confirmacion>>

\* Lines 137-161: the three counters and the printed summary.
Resumen ==
  /\ pc = "loop"
  /\ index = Len(df)
  /\ totales' = [total_nuevos |-> Len(nuevos_items),
                 total_duplicados_db |-> Cardinality(duplicados_db),
                 total_duplicados_archivo |-> Cardinality(duplicados_archivo)]
  /\ pc' = "archivos"
  /\ UNCHANGED <<exit_status, log, error, df, store, tx, existing_keys,
                 nuevos_items, duplicados_db, duplicados_archivo,
                 activation_keys_nuevos, index, archivos, entrada,
                 confirmacion>>

\* A character that open(..., "w") encodes in more than one byte (UTF-8).
MultiByte(c) == c = "í"

\* The first byte of the encoding of a multi-byte character.
PrimerByte(c) == "0xC3"

\* Line 167 cut short: what f.write(f"{code}\n") leaves of the line of a
\* code when the write ends before the newline: a prefix of the code, which
\* may end inside a multi-byte character.
Cortes(code) ==
  { SubSeq(code, 1, k) : k \in 0..Len(code) } \cup
  { Append(SubSeq(code, 1, k - 1), PrimerByte(code[k])) :
      k \in { h \in 1..Len(code) : MultiByte(code[h]) } }

\* Lines 165-167 and 171-173 when open() or write() raises: open() failed and
\* the file is as it was, or the file was opened for writing and holds what
\* was written before the failure: the lines of some of the codes (the set
\* is iterated in no fixed order) and possibly the cut line of another.
Fallidos(previo, codigos) ==
  {previo} \cup
  { [existe |-> TRUE, lineas |-> p \cup t] :
      p \in SUBSET codigos,
      t \in {{}} \cup
            { {f} : f \in UNION { Cortes(c) : c \in codigos } \ {<<>>} } }

\* Lines 163-174: each side file is written when its counter is positive,
\* one line per element of its set, and an INFO message is logged after
\* each file written.  The writes are inside the try: an exception of
\* open() or write() goes to the handler of line 198, with the file being
\* written left absent or partial and the later file not written.
GuardarDuplicados ==
  /\ pc = "archivos"
  /\ LET escribe_db == totales.total_duplicados_db > 0
         escribe_archivo == totales.total_duplicados_archivo > 0
         db_escrito ==
           IF escribe_db
             THEN [existe |-> TRUE, lineas |-> duplicados_db]
             ELSE archivos.duplicados_db_txt
         log_db ==
           IF escribe_db
             THEN Logged("INFO", "creado_duplicados_db_txt", <<>>)
             ELSE log
     IN
       \/ /\ archivos' =
               [duplicados_db_txt |-> db_escrito,
                duplicados_archivo_txt |->
                  IF escribe_archivo
                    THEN [existe |-> TRUE, lineas |-> duplicados_archivo]
                    ELSE archivos.duplicados_archivo_txt]
          /\ log' =
               IF escribe_archivo
                 THEN Append(log_db,
                             <<"INFO", "creado_duplicados_archivo_txt", <<>>>>)
                 ELSE log_db
          /\ pc' = "prompt"
          /\ UNCHANGED error
       \/ /\ escribe_db
          /\ \E f \in Fallidos(archivos.duplicados_db_txt, duplicados_db) :
               archivos' = [archivos EXCEPT !.duplicados_db_txt = f]
          /\ error' = "OSError"
          /\ pc' = "except"
          /\ UNCHANGED log
       \/ /\ escribe_archivo
          /\ \E f \in Fallidos(archivos.duplicados_archivo_txt,
                               duplicados_archivo) :
               archivos' = [duplicados_db_txt |-> db_escrito,
                            duplicados_archivo_txt |-> f]
          /\ log' = log_db
          /\ error' = "OSError"
          /\ pc' = "except"
  /\ UNCHANGED <<exit_status, df, store, tx, existing_keys, nuevos_items,
                 duplicados_db, duplicados_archivo, activation_keys_nuevos,
                 index, totales, entrada, confirmacion>>

(* --------------------------- confirmation ------------------------------ *)

\* A prompt that looked only at the first letter of the answer.
RespuestaValidaPrefijo(c) == c # <<>> /\ c[1] \in {"y", "n"}

\* Line 179: the two answers that leave the prompt.
RespuestaValida(c) == c \in { <<"y">>, <<"n">> }

\* A decision that inserted on either answer.
ConfirmadaCualquiera(c) == c \in { <<"y">>, <<"n">> }

\* Line 184: the answer that starts the insertion.
Confirmada(c) == c = <<"y">>

\* Lines 177-182: one round of the prompt; input() raises EOFError when the
\* standard input is closed, which the handler of line 198 catches.
Confirmar ==
  /\ pc = "prompt"
  /\ \/ \E a \in Answers :
          /\ entrada' = a
          /\ confirmacion' = Lower(Strip(a))
          /\ pc' = IF RespuestaValida(Lower(Strip(a))) THEN "decidir" ELSE "prompt"
          /\ UNCHANGED error
     \/ /\ error' = "EOFError"
        /\ pc' = "except"
        /\ UNCHANGED <<entrada, confirmacion>>
  /\ UNCHANGED <<exit_status, log, df, store, tx, existing_keys, nuevos_items,
                 duplicados_db, duplicados_archivo, activation_keys_nuevos,
                 index, totales, archivos>>

\* Lines 184-196: insert only on 'y' and only a non-empty list.
Decidir ==
  /\ pc = "decidir"
  /\ IF Confirmada(confirmacion)
       THEN IF nuevos_items # <<>>
              THEN /\ pc' = "bulk"
                   /\ UNCHANGED log
              ELSE /\ log' = Logged("INFO", "no_hay_nuevos", <<>>)
                   /\ pc' = "finally"
       ELSE /\ log' = Logged("INFO", "detenida_por_usuario", <<>>)
            /\ pc' = "finally"
  /\ UNCHANGED <<exit_status, error, df, store, tx, existing_keys,
                 nuevos_items, duplicados_db, duplicados_archivo,
                 activation_keys_nuevos, index, totales, archivos, entrada,
                 confirmacion>>

(* ------------------------------- write --------------------------------- *)

\* Line 187: bulk_save_objects sends the INSERTs inside the session's
\* transaction; the database may fail after any number k of them.
BulkSaveObjects ==
  /\ pc = "bulk"
  /\ \E k \in 0..Len(nuevos_items) :
       /\ tx' = [i \in 1..k |-> nuevos_items[i].activationKey]
       /\ IF k = Len(nuevos_items)
            THEN /\ pc' = "commit"
                 /\ UNCHANGED error
            ELSE /\ error' = "InsertError"
                 /\ pc' = "except"
  /\ UNCHANGED <<exit_status, log, df, store, existing_keys, nuevos_items,
                 duplicados_db, duplicados_archivo, activation_keys_nuevos,
                 index, totales, archivos, entrada, confirmacion>>

\* Lines 188-190: commit makes the transaction's rows part of the table, or
\* fails and leaves the table as it was.
Commit ==
  /\ pc = "commit"
  /\ \/ /\ store' = store \o tx
        /\ tx' = <<>>
        /\ log' = Logged("INFO", "datos_insertados", <<>>)
        /\ pc' = "finally"
        /\ UNCHANGED error
     \/ /\ error' = "CommitError"
        /\ pc' = "except"
        /\ UNCHANGED <<store, tx, log>>
  /\ UNCHANGED <<exit_status, df, existing_keys, nuevos_items, duplicados_db,
                 duplicados_archivo, activation_keys_nuevos, index, totales,
                 archivos, entrada, confirmacion>>

\* A handler that committed the open transaction instead of rolling it back.
ExceptCommit ==
  /\ pc = "except"
  /\ store' = store \o tx
  /\ tx' = <<>>
  /\ log' = Logged("ERROR", "error_al_insertar", <<>>)
  /\ pc' = "finally"
  /\ UNCHANGED <<exit_status, error, df, existing_keys, nuevos_items,
                 duplicados_db, duplicados_archivo, activation_keys_nuevos,
                 index, totales, archivos, entrada, confirmacion>>

\* Lines 198-201: the handler of every exception of the try block: roll the
\* transaction back, log and print the error.
Except ==
  /\ pc = "except"
  /\ tx' = <<>>
  /\ log' = Logged("ERROR", "error_al_insertar", <<>>)
  /\ pc' = "finally"
  /\ UNCHANGED <<exit_status, error, df, store, existing_keys, nuevos_items,
                 duplicados_db, duplicados_archivo, activation_keys_nuevos,
                 index, totales, archivos, entrada, confirmacion>>

\* Lines 202-203: the finally clause, then the with block closes the session
\* (which discards an open transaction) and the script ends with status 0.
Finalizar ==
  /\ pc = "finally"
  /\ log' = Logged("INFO", "proceso_finalizado", <<>>)
  /\ tx' = <<>>
  /\ exit_status' = "0"
  /\ pc' = "exited"
  /\ UNCHANGED <<error, df, store, existing_keys, nuevos_items,
                 duplicados_db, duplicados_archivo, activation_keys_nuevos,
                 index, totales, archivos, entrada, confirmacion>>

(* ---------------------------- specification ---------------------------- *)

Next ==
  \/ ValidarEntorno
  \/ CrearEngine
  \/ VerificarTablas
  \/ LeerExcel
  \/ ConsultarExistentes
  \/ ProcesarFila
  \/ Resumen
  \/ GuardarDuplicados
  \/ Confirmar
  \/ Decidir
  \/ BulkSaveObjects
  \/ Commit
  \/ Except
  \/ Finalizar

Spec == Init /\ [][Next]_vars

\* The types of the state.
TypeOK ==
  /\ pc \in {"env", "engine", "tablas", "excel", "query", "loop", "archivos",
             "prompt", "decidir", "bulk", "commit", "except", "finally",
             "exited"}
  /\ exit_status \in {Running, "0", "1"}
  /\ index \in 0..Len(df)
  /\ Len(df) <= MaxRows

(* ------------------------------- claims -------------------------------- *)

\* The messages logged so far.
Mensajes == { log[i][2] : i \in 1..Len(log) }

\* The existing keys were read: the reconciliation pass has started.
PasadaIniciada == "codigos_existentes" \in Mensajes

\* The pass has started and the loop is over, by its end or by an exception.
PasadaTerminada == PasadaIniciada /\ pc # "loop"

\* A cell that is missing or holds only blanks.
EnBlanco(cell) ==
  cell.tipo = "float" \/ \A i \in 1..Len(cell.val) : cell.val[i] = " "

\* The key a row carries.
Clave(i) == Strip(Str(df[i].ACTIVATION_CODE))

\* The keys of the accepted items, in order.
ClavesNuevas == [i \in 1..Len(nuevos_items) |-> nuevos_items[i].activationKey]

\* The rows logged as having no activation code.
FilasInvalidas ==
  { i \in 1..Len(df) : \E j \in 1..Len(log) :
      log[j][2] = "codigo_vacio" /\ log[j][3] = <<i + 1>> }

\* The table holds exactly the keys read at the start of the run.
StoreIntacto ==
  Range(store) = existing_keys /\ Len(store) = Cardinality(existing_keys)

\* The table holds the keys read at the start and every accepted key.
StoreCompleto ==
  /\ Range(store) = existing_keys \cup Range(ClavesNuevas)
  /\ Len(store) = Cardinality(existing_keys) + Len(nuevos_items)

\* C1: when the pass has computed its counters, the accepted rows, the rows
\* without key, the duplicates of the store and the duplicates of the file
\* are disjoint and their sizes add up to the number of rows.
C1_PartitionCoversRows ==
  pc = "archivos" =>
    /\ totales.total_nuevos + Cardinality(FilasInvalidas)
         + totales.total_duplicados_db + totales.total_duplicados_archivo
       = total_filas
    /\ Range(ClavesNuevas) \cap duplicados_db = {}
    /\ Range(ClavesNuevas) \cap duplicados_archivo = {}
    /\ duplicados_db \cap duplicados_archivo = {}

\* C2: at every point the keys of nuevos_items are pairwise distinct and
\* none was among the keys read from the table, and the table never holds
\* the same key twice.
C2_AcceptedKeysDistinct ==
  /\ \A i, j \in 1..Len(nuevos_items) :
       i # j => nuevos_items[i].activationKey # nuevos_items[j].activationKey
  /\ \A i \in 1..Len(nuevos_items) :
       nuevos_items[i].activationKey \notin existing_keys
  /\ \A i, j \in 1..Len(store) : i # j => store[i] # store[j]

\* C2 witness: a run that rejected a duplicate of the table and a duplicate
\* of the file and then wrote the accepted rows.
C2_Witness ==
  /\ pc = "exited"
  /\ Len(store) > Cardinality(existing_keys)
  /\ duplicados_archivo # {}
  /\ duplicados_db \ {NA_VACIO} # {}

\* C3: no row whose activation code is missing or blank is accepted: no
\* accepted item and no row of the table has the empty key.
C3_NoBlankAccepted ==
  /\ \A i \in 1..Len(nuevos_items) : nuevos_items[i].activationKey # <<>>
  /\ \A i \in 1..Len(df) :
       i <= index /\ EnBlanco(df[i].ACTIVATION_CODE) => i \in FilasInvalidas
  /\ <<>> \notin Range(store)

\* C4: once the pass is over every row has been classified by the
\* precedence empty, in the table, earlier in the file, else accepted: a
\* blank row is invalid; a row whose key is in the table is a duplicate of
\* the table and is not accepted; for any other key the first row that
\* carries it is the one accepted and the key is a duplicate of the file
\* exactly when a later row carries it.
C4_Precedence ==
  PasadaTerminada =>
    \A i \in 1..Len(df) :
      IF EnBlanco(df[i].ACTIVATION_CODE)
        THEN i \in FilasInvalidas
      ELSE IF Clave(i) \in existing_keys
        THEN /\ Clave(i) \in duplicados_db
             /\ Clave(i) \notin Range(ClavesNuevas)
             /\ Clave(i) \notin duplicados_archivo
      ELSE LET primera ==
                 CHOOSE j \in 1..i :
                   /\ ~EnBlanco(df[j].ACTIVATION_CODE) /\ Clave(j) = Clave(i)
                   /\ \A h \in 1..(j - 1) :
                        EnBlanco(df[h].ACTIVATION_CODE) \/ Clave(h) # Clave(i)
           IN /\ Cardinality({ n \in 1..Len(nuevos_items) :
                                 nuevos_items[n].activationKey = Clave(i) }) = 1
              /\ \E n \in 1..Len(nuevos_items) :
                   /\ nuevos_items[n].activationKey = Clave(i)
                   /\ nuevos_items[n].name = Strip(Str(df[primera].NOMBRE))
              /\ Clave(i) \notin duplicados_db
              /\ (i # primera => Clave(i) \in duplicados_archivo)

\* C5: after the answer 'n' the table holds exactly the keys it held when
\* the run read them, and no insert is pending.
C5_DeclineLeavesStore ==
  confirmacion = <<"n">> => StoreIntacto /\ tx = <<>>

\* C5 witness: the operator declined, with an answer that needed trimming
\* and lowering, a run that had rows to insert.
C5_Witness ==
  /\ pc = "exited"
  /\ entrada = <<"N", " ">>
  /\ confirmacion = <<"n">>
  /\ nuevos_items # <<>>

\* C6: in a confirmed run the table holds either the keys read at the start
\* or those and every accepted key, never a part of them; after a failed
\* write it holds the keys read at the start, and when the run has ended the
\* error was logged, the finalization message was logged and nothing is
\* pending.
C6_AllOrNothing ==
  confirmacion = <<"y">> =>
    /\ StoreIntacto \/ (StoreCompleto /\ "datos_insertados" \in Mensajes)
    /\ error \in {"InsertError", "CommitError"} => StoreIntacto
    /\ error \in {"InsertError", "CommitError"} /\ pc = "exited" =>
         /\ "error_al_insertar" \in Mensajes
         /\ "proceso_finalizado" \in Mensajes
         /\ tx = <<>>

\* C6 witness: the insertion failed after some but not all of the accepted
\* rows had been sent.
C6_Witness ==
  /\ pc = "except"
  /\ error = "InsertError"
  /\ tx # <<>>
  /\ Len(tx) < Len(nuevos_items)

\* C7: a pass that has started handles every row: it never ends with rows
\* left unclassified.
C7_NoRowAborts ==
  PasadaTerminada => index = Len(df)

\* C8: a run ended by a fatal setup error (configuration, engine, input
\* file, reading the existing keys) has logged an error, has exit status 1,
\* has produced no partition, has not prompted and has not written.
C8_FatalSetupAborts ==
  pc = "exited"
  /\ error \in {"SystemExit", "EngineError", "ExcelError", "OperationalError"}
  => /\ exit_status = "1"
     /\ \E i \in 1..Len(log) : log[i][1] = "ERROR"
     /\ nuevos_items = <<>> /\ duplicados_db = {} /\ duplicados_archivo = {}
     /\ entrada = Unset
     /\ store \in Stores

\* C9: duplicados_db.txt exists only if some row with a key is a duplicate
\* of the table, and lists only keys of the table; duplicados_archivo.txt
\* exists only if some row repeats the key of an earlier row, and lists only
\* such keys.
C9_SideFiles ==
  /\ archivos.duplicados_db_txt.existe =>
       \E i \in 1..Len(df) :
         ~EnBlanco(df[i].ACTIVATION_CODE) /\ Clave(i) \in existing_keys
  /\ archivos.duplicados_db_txt.lineas \subseteq existing_keys
  /\ archivos.duplicados_archivo_txt.existe =>
       \E i, j \in 1..Len(df) :
         /\ i < j
         /\ ~EnBlanco(df[i].ACTIVATION_CODE) /\ ~EnBlanco(df[j].ACTIVATION_CODE)
         /\ Clave(i) = Clave(j)
  /\ archivos.duplicados_archivo_txt.lineas \subseteq
       { Clave(i) : i \in { h \in 1..Len(df) : ~EnBlanco(df[h].ACTIVATION_CODE) } }

\* An answer that is the letter t, in either case, between blanks.
EsToken(a, t) ==
  \E i \in 1..Len(a) :
    /\ a[i] \in t
    /\ \A j \in 1..Len(a) : j # i => a[j] = " "

\* An answer that means yes.
EsSi(a) == EsToken(a, {"y", "Y"})

\* An answer that means no.
EsNo(a) == EsToken(a, {"n", "N"})

\* C10: the prompt is left for the decision exactly on an answer that is y
\* or n up to case and surrounding blanks, any other answer stays at the
\* prompt, and the table changes only after an answer of y and only when
\* there are accepted rows.
C10_Gate ==
  [][ /\ (pc = "prompt" /\ pc' = "decidir" => EsSi(entrada') \/ EsNo(entrada'))
      /\ (pc = "prompt" /\ pc' = "prompt" =>
            ~(EsSi(entrada') \/ EsNo(entrada')))
      /\ (pc = "prompt" => pc' \in {"prompt", "decidir", "except"})
      /\ (store' # store => EsSi(entrada) /\ nuevos_items # <<>>)
      /\ (pc' \in {"bulk", "commit"} => EsSi(entrada')) ]_vars

\* C10 witness: an unrecognised answer was given and the prompt is asked
\* again, in a run that has rows to insert.
C10_Witness ==
  /\ pc = "prompt"
  /\ entrada = <<"y", "e", "s">>
  /\ nuevos_items # <<>>
  /\ StoreIntacto

====
